---- MODULE Spec2Model ----
(***************************************************************************)
(* State-machine model of the Bahmni/OpenMRS synchronisation command       *)
(* omrs/management/commands/sync_bahmni_db.py (class Command).             *)
(*                                                                         *)
(* The relational store is one sequence of rows per Django model; the      *)
(* primary key of a row is its position (auto-increment from 1), rows are  *)
(* only ever appended by save().  Rows keep the fields the command reads   *)
(* or writes; creator (always 1) and date_created (wall clock) are left    *)
(* out.  A run is handle() -> sync_db(): one step per iteration of the     *)
(* concept loop, one step per iteration of the mapping loop.               *)
(***************************************************************************)
EXTENDS Integers, Sequences, FiniteSets, TLC

VARIABLES
    db,            \* the relational store: [model name |-> sequence of rows]
    concept_file,  \* the parsed lines of --concept_file
    mapping_file,  \* the parsed lines of --mapping_file
    options,       \* command line options: org_id, source_id, concept_id
    concepts,      \* the list handle() loaded; sync_concept adds is_set/new_id
    mappings,      \* the list handle() loaded
    cnt,           \* the cnt_* counters of the command object
    pc,            \* "idle", "sync_concept", "sync_mapping", "done", "error"
    ci,            \* position of the concept loop of sync_db (next index)
    mi,            \* position of the mapping loop of sync_mapping (next index)
    err,           \* name of the exception that ended the run, "" if none
    clock,         \* number of uuid.uuid1() calls made so far
    runs,          \* number of handle() invocations so far
    db_prev,       \* history: the store as the previous run left it
    export_data,   \* the list returned by the last export call
    exported,      \* history: the concepts export was called for, in order
    workers,       \* concurrent runs: [run |-> its position and locals]
    overlapped     \* history: a run has stepped while another was under way

vars == <<db, concept_file, mapping_file, options, concepts, mappings, cnt,
          pc, ci, mi, err, clock, runs, db_prev, export_data, exported,
          workers, overlapped>>

(***************************************************************************)
(* Bounds of the model.                                                    *)
(***************************************************************************)
MaxRuns == 2        \* handle() invocations on the same pair of files
MaxMappings == 2    \* lines of the mapping file (mapping-rich batches)

(***************************************************************************)
(* Python values.                                                          *)
(***************************************************************************)
None == <<>>
Some(x) == <<x>>

Digit == <<"0", "1", "2", "3", "4", "5", "6", "7", "8", "9">>

RECURSIVE str(_)
\* str(n) of a non-negative int: its decimal digits
str(n) == IF n < 10 THEN Digit[n + 1] ELSE str(n \div 10) \o Digit[(n % 10) + 1]

\* int(s) of a decimal string; the ids of the model stay below 100
int(s) == CHOOSE n \in 0..99 : str(n) = s

\* url.split("/") of "/a/b/.../z/": the segments between the slashes, with
\* the empty strings before the first and after the last slash.  A URL is
\* kept as the sequence of its segments.
split(url) == <<"">> \o url \o <<"">>

\* seq[i] with Python's 0-based index
at(seq, i) == seq[i + 1]

\* 'key in dict'
Has(dict, key) == key \in DOMAIN dict

\* dict[key] = value
SetKey(dict, key, value) ==
    [k \in (DOMAIN dict) \cup {key} |-> IF k = key THEN value ELSE dict[k]]

\* uuid.uuid1(): a value that differs on every call
uuid1(n) == "uuid1-" \o str(n)

(***************************************************************************)
(* The ORM: queryset[0] and instance.save().  Model.objects.filter(...)     *)
(* is the set of the primary keys of the rows that pass the test.          *)
(***************************************************************************)
Tables == {"ConceptClass", "ConceptDatatype", "Concept", "ConceptName",
           "ConceptDescription", "ConceptNumeric", "ConceptAnswer",
           "ConceptSet", "ConceptReferenceSource", "ConceptReferenceTerm",
           "ConceptMapType", "ConceptReferenceMap"}

EmptyDb == [t \in Tables |-> <<>>]

\* queryset[0]: the first row in primary-key order
first(ids) == CHOOSE i \in ids : \A j \in ids : i <= j

\* instance.save() of a new instance: the row is appended
save(d, table, row) == [d EXCEPT ![table] = Append(@, row)]

\* primary key of the row save() has just appended
last_id(d, table) == Len(d[table])

\* An execution context threaded through the handlers: the store, the
\* uuid1 call count and the exception raised so far ("" if none).
Ctx(d, c, e) == [db |-> d, clock |-> c, err |-> e]
Raise(s, e) == [s EXCEPT !.err = e]
Ok(s) == s.err = ""

(***************************************************************************)
(* sync_concept (lines 235-311), in the order of its statements.           *)
(***************************************************************************)

\* lines 249-257: the concept class, looked up by name or created
sync_concept_class(s, concept) ==
    IF ~Has(concept, "concept_class") THEN Raise(s, "KeyError")
    ELSE LET concept_classes ==
                 {i \in DOMAIN s.db.ConceptClass :
                     LET r == s.db.ConceptClass[i]
                     IN  /\ r.name = concept.concept_class}
         IN  IF concept_classes # {} THEN s
             ELSE IF ~Has(concept, "retired")
                  THEN Raise([s EXCEPT !.clock = @ + 1], "KeyError")
                  ELSE [s EXCEPT
                          !.clock = @ + 1,
                          !.db = save(@, "ConceptClass",
                                      [name |-> concept.concept_class,
                                       retired |-> concept.retired,
                                       uuid |-> uuid1(s.clock + 1)])]

\* concept_class after lines 249-257: the first match in primary-key order
concept_class_id(s, concept) ==
    first({i \in DOMAIN s.db.ConceptClass :
              LET r == s.db.ConceptClass[i]
              IN  /\ r.name = concept.concept_class})

\* lines 259-265: the datatype, looked up by name or created
sync_concept_datatype(s, concept) ==
    IF ~Ok(s) THEN s
    ELSE IF ~Has(concept, "datatype") THEN Raise(s, "KeyError")
    ELSE LET datatypes ==
                 {i \in DOMAIN s.db.ConceptDatatype :
                     LET r == s.db.ConceptDatatype[i]
                     IN  /\ r.name = concept.datatype}
         IN  IF datatypes # {} THEN s
             ELSE [s EXCEPT !.db = save(@, "ConceptDatatype",
                                        [name |-> concept.datatype])]

datatype_id(s, concept) ==
    first({i \in DOMAIN s.db.ConceptDatatype :
              LET r == s.db.ConceptDatatype[i]
              IN  /\ r.name = concept.datatype})

\* lines 270-272: concept['is_set']
with_is_set(concept) ==
    SetKey(concept, "is_set",
           IF Has(concept.extras, "is_set") THEN concept.extras.is_set ELSE 0)

\* line 275: ConceptName.objects.filter(name=, locale=, locale_preferred=)
concept_names_matching(d, cname) ==
    {i \in DOMAIN d.ConceptName :
        LET r == d.ConceptName[i]
        IN  /\ r.name = cname.name
            /\ r.locale = cname.locale
            /\ r.locale_preferred = cname.locale_preferred}

\* the update commented out at lines 281-282, put back: the concept found
\* through the name takes the record's external id and retired flag
name_found_update(s, concept, cconceptname) ==
    IF cconceptname.concept_id \in DOMAIN s.db.Concept
    THEN [s EXCEPT !.db.Concept[cconceptname.concept_id] =
                       [@ EXCEPT !.uuid = concept.external_id,
                                 !.retired = concept.retired]]
    ELSE Raise(s, "DoesNotExist")

\* lines 276-282: a name of the record exists already.  The concept that
\* owns it becomes cconcept; no row is written (the update is commented out).
name_found(s, concept, cconceptname) ==
    IF cconceptname.concept_id \in DOMAIN s.db.Concept
    THEN s
    ELSE Raise(s, "DoesNotExist")

\* lines 284-289: the Concept row, created when no concept is held yet
new_concept(s, concept, cls, dt) ==
    IF ~Has(concept, "external_id") \/ ~Has(concept, "retired")
    THEN Raise(s, "KeyError")
    ELSE [s EXCEPT !.db = save(@, "Concept",
              [concept_class |-> cls,
               datatype |-> dt,
               is_set |-> concept.is_set,
               uuid |-> concept.external_id,
               retired |-> concept.retired,
               description |-> IF Has(concept, "description")
                               THEN Some(concept.description) ELSE None])]

\* lines 290-291: the ConceptName row of a name that was not found
new_concept_name(s, cconcept, cname) ==
    [s EXCEPT !.db = save(@, "ConceptName",
        [concept_id |-> cconcept,
         name |-> cname.name,
         uuid |-> cname.external_id,
         concept_name_type |-> cname.name_type,
         locale |-> cname.locale,
         locale_preferred |-> cname.locale_preferred,
         voided |-> 0])]

RECURSIVE sync_concept_names(_, _, _, _, _, _)
\* lines 274-291: the loop over concept['names'] from position k (1-based);
\* cconcept is None or Some(primary key).  Returns the context and cconcept.
sync_concept_names(s, concept, cls, dt, k, cconcept) ==
    IF ~Ok(s) \/ k > Len(concept.names)
    THEN [s |-> s, cconcept |-> cconcept]
    ELSE LET cname == concept.names[k]
             concept_names == concept_names_matching(s.db, cname)
         IN  IF concept_names # {}
             THEN LET cconceptname == s.db.ConceptName[first(concept_names)]
                  IN  sync_concept_names(name_found(s, concept, cconceptname),
                                         concept, cls, dt, k + 1,
                                         Some(cconceptname.concept_id))
             ELSE LET s1 == IF cconcept = None
                            THEN new_concept(s, concept, cls, dt) ELSE s
                      cc == IF cconcept = None
                            THEN last_id(s1.db, "Concept") ELSE cconcept[1]
                  IN  IF ~Ok(s1) THEN [s |-> s1, cconcept |-> cconcept]
                      ELSE sync_concept_names(new_concept_name(s1, cc, cname),
                                              concept, cls, dt, k + 1, Some(cc))

\* line 298: ConceptDescription.objects.filter(concept_id=, description=)
concept_descriptions_matching(d, concept_id, cdescription) ==
    {i \in DOMAIN d.ConceptDescription :
        LET r == d.ConceptDescription[i]
        IN  /\ r.concept_id = concept_id
            /\ r.description = cdescription.description}

RECURSIVE sync_concept_descriptions(_, _, _, _)
\* lines 297-301: the loop over concept['descriptions'] from position k
sync_concept_descriptions(s, concept, concept_id, k) ==
    IF ~Ok(s) \/ k > Len(concept.descriptions) THEN s
    ELSE LET cdescription == concept.descriptions[k]
             found == concept_descriptions_matching(s.db, concept_id, cdescription)
             s1 == IF found # {} THEN s
                   ELSE [s EXCEPT !.db = save(@, "ConceptDescription",
                            [concept_id |-> concept_id,
                             description |-> cdescription.description,
                             uuid |-> cdescription.external_id,
                             locale |-> cdescription.locale])]
         IN  sync_concept_descriptions(s1, concept, concept_id, k + 1)

NumericFields == {"hi_absolute", "hi_critical", "hi_normal", "low_absolute",
                  "low_normal", "units", "precise", "display_precision"}

\* lines 303-311: the numeric metadata.  ConceptNumeric(concept_id=...)
\* builds an instance in memory; it is never None, so the branch that
\* fills the fields and calls save() is not taken.
sync_concept_numeric(s, concept, concept_id) ==
    IF ~Ok(s) THEN s
    ELSE LET extra == IF concept.datatype = "Numeric"
                      THEN Some(concept.extras) ELSE None
         IN  IF extra = None THEN s
             ELSE LET numeric == Some([concept_id |-> concept_id])
                  IN  IF numeric = None
                      THEN Raise(s, "TypeError")   \* cconcept['concept_id']
                      ELSE s

\* sync_concept: returns the context and the record as the call leaves it
sync_concept(s0, record) ==
    LET s1 == sync_concept_class(s0, record)
        s2 == sync_concept_datatype(s1, record)
    IN  IF ~Ok(s2) THEN [s |-> s2, concept |-> record]
        ELSE IF ~Has(record, "names") \/ ~Has(record, "extras")
        THEN [s |-> Raise(s2, "KeyError"), concept |-> record]
        ELSE
        LET concept == with_is_set(record)
            r == sync_concept_names(s2, concept,
                                    concept_class_id(s2, concept),
                                    datatype_id(s2, concept), 1, None)
        IN  IF ~Ok(r.s) THEN [s |-> r.s, concept |-> concept]
            ELSE IF r.cconcept = None    \* None.concept_id at line 293
            THEN [s |-> Raise(r.s, "AttributeError"), concept |-> concept]
            ELSE
            LET cid == r.cconcept[1]
                c2 == SetKey(concept, "new_id", cid)
            IN  IF ~Has(concept, "descriptions")
                THEN [s |-> Raise(r.s, "KeyError"), concept |-> c2]
                ELSE [s |-> sync_concept_numeric(
                               sync_concept_descriptions(r.s, c2, cid, 1), c2, cid),
                      concept |-> c2]

(***************************************************************************)
(* Helpers of omrs/management/commands/__init__.py, which the command      *)
(* imports: ConceptHelper and OclOpenmrsHelper.                            *)
(***************************************************************************)
MAP_TYPE_Q_AND_A == "Q-AND-A"
MAP_TYPE_CONCEPT_SET == "CONCEPT-SET"

\* The source directory: OCL source id <-> OpenMRS reference source name,
\* and the organisation that owns each OCL source.
SOURCE_DIRECTORY ==
    { [ocl_id |-> "CIEL", omrs_id |-> "CIEL", owner_id |-> "CIEL"],
      [ocl_id |-> "SNOMED-CT", omrs_id |-> "SNOMED CT", owner_id |-> "IHTSDO"],
      [ocl_id |-> "ICD-10-WHO", omrs_id |-> "ICD-10-WHO", owner_id |-> "WHO"] }

\* OclOpenmrsHelper.get_omrs_source_id_from_ocl_id: [err, id]
get_omrs_source_id_from_ocl_id(ocl_source_id) ==
    LET hit == {e \in SOURCE_DIRECTORY : e.ocl_id = ocl_source_id}
    IN  IF hit = {} THEN [err |-> "UnrecognizedSourceException", id |-> ""]
        ELSE [err |-> "", id |-> (CHOOSE e \in hit : TRUE).omrs_id]

\* OclOpenmrsHelper.get_ocl_source_id_from_omrs_id: [err, id]
get_ocl_source_id_from_omrs_id(omrs_source_id) ==
    LET hit == {e \in SOURCE_DIRECTORY : e.omrs_id = omrs_source_id}
    IN  IF hit = {} THEN [err |-> "UnrecognizedSourceException", id |-> ""]
        ELSE [err |-> "", id |-> (CHOOSE e \in hit : TRUE).ocl_id]

\* OclOpenmrsHelper.get_source_owner_id: [err, id]
get_source_owner_id(ocl_source_id) ==
    LET hit == {e \in SOURCE_DIRECTORY : e.ocl_id = ocl_source_id}
    IN  IF hit = {} THEN [err |-> "UnrecognizedSourceException", id |-> ""]
        ELSE [err |-> "", id |-> (CHOOSE e \in hit : TRUE).owner_id]

\* ConceptHelper.get_new_id(concepts, id): the identifier resolver.  The
\* result is [err, id]: UnresolvedIdentifierError when no record of the
\* batch carries the identifier, KeyError when its new_id was never set.
get_new_id(cs, id) ==
    LET hit == {i \in DOMAIN cs : cs[i].id = id}
    IN  IF hit = {} THEN [err |-> "UnresolvedIdentifierError", id |-> 0]
        ELSE IF ~Has(cs[first(hit)], "new_id") THEN [err |-> "KeyError", id |-> 0]
        ELSE [err |-> "", id |-> cs[first(hit)].new_id]

(***************************************************************************)
(* create_ciel_mapping (lines 561-591) and the find-or-create steps it     *)
(* shares, statement for statement, with create_external_mapping.          *)
(***************************************************************************)

\* lines 527-532 and 564-569: ConceptReferenceSource by name
sync_reference_source(s, source_id) ==
    IF {i \in DOMAIN s.db.ConceptReferenceSource :
           LET r == s.db.ConceptReferenceSource[i]
           IN  /\ r.name = source_id} # {}
    THEN s
    ELSE [s EXCEPT !.clock = @ + 1,
                   !.db = save(@, "ConceptReferenceSource",
                               [name |-> source_id, hl7_code |-> None,
                                retired |-> FALSE,
                                uuid |-> uuid1(s.clock + 1)])]

reference_source_id(s, source_id) ==
    first({i \in DOMAIN s.db.ConceptReferenceSource :
              LET r == s.db.ConceptReferenceSource[i]
              IN  /\ r.name = source_id})

\* lines 534-539 and 571-576: ConceptReferenceTerm by (code, concept_source)
sync_reference_term(s, code, creference_source) ==
    IF {i \in DOMAIN s.db.ConceptReferenceTerm :
           LET r == s.db.ConceptReferenceTerm[i]
           IN  /\ r.code = code
               /\ r.concept_source = creference_source} # {}
    THEN s
    ELSE [s EXCEPT !.clock = @ + 1,
                   !.db = save(@, "ConceptReferenceTerm",
                               [code |-> code,
                                concept_source |-> creference_source,
                                name |-> None,
                                retired |-> FALSE,
                                uuid |-> uuid1(s.clock + 1)])]

reference_term_id(s, code, creference_source) ==
    first({i \in DOMAIN s.db.ConceptReferenceTerm :
              LET r == s.db.ConceptReferenceTerm[i]
              IN  /\ r.code = code
                  /\ r.concept_source = creference_source})

\* the map type looked up by name and by the uuid it would be given, as
\* the answer and set lookups do: the lookup never finds a row
sync_map_type_by_uuid(s, map_type) ==
    IF {i \in DOMAIN s.db.ConceptMapType :
           LET r == s.db.ConceptMapType[i]
           IN  /\ r.name = map_type
               /\ r.uuid = uuid1(s.clock + 1)} # {}
    THEN s
    ELSE [s EXCEPT !.clock = @ + 1,
                   !.db = save(@, "ConceptMapType",
                               [name |-> map_type,
                                uuid |-> uuid1(s.clock + 1)])]

\* lines 541-546 and 578-583: ConceptMapType by name
sync_map_type(s, map_type) ==
    IF {i \in DOMAIN s.db.ConceptMapType :
           LET r == s.db.ConceptMapType[i]
           IN  /\ r.name = map_type} # {}
    THEN s
    ELSE [s EXCEPT !.clock = @ + 1,
                   !.db = save(@, "ConceptMapType",
                               [name |-> map_type,
                                uuid |-> uuid1(s.clock + 1)])]

map_type_id(s, map_type) ==
    first({i \in DOMAIN s.db.ConceptMapType :
              LET r == s.db.ConceptMapType[i]
              IN  /\ r.name = map_type})

\* a lookup of reference maps that finds nothing (the filter names a value
\* no row holds)
reference_maps_matching_none(d, concept_id, term, map_type) == {}

\* lines 548 and 585: ConceptReferenceMap by (concept, term, map type)
reference_maps_matching(d, concept_id, term, map_type) ==
    {i \in DOMAIN d.ConceptReferenceMap :
        LET r == d.ConceptReferenceMap[i]
        IN  /\ r.concept_id = concept_id
            /\ r.concept_reference_term = term
            /\ r.map_type = map_type}

\* lines 548-553 and 585-590: ConceptReferenceMap, created with uuid=external_id
sync_reference_map(s, concept_id, term, map_type, external_id) ==
    IF reference_maps_matching(s.db, concept_id, term, map_type) # {}
    THEN s
    ELSE [s EXCEPT !.db = save(@, "ConceptReferenceMap",
                               [concept_reference_term |-> term,
                                concept_id |-> concept_id,
                                uuid |-> external_id,
                                map_type |-> map_type])]

\* find-or-create of source, term, map type and map, in that order
\* (lines 527-553 and 564-590); source_id is the OpenMRS source name
sync_reference_chain(s, source_id, code, map_type, concept_id, external_id) ==
    LET s1 == sync_reference_source(s, source_id)
        src == reference_source_id(s1, source_id)
        s2 == sync_reference_term(s1, code, src)
        term == reference_term_id(s2, code, src)
        s3 == sync_map_type(s2, map_type)
    IN  sync_reference_map(s3, concept_id, term, map_type_id(s3, map_type),
                           external_id)

\* create_ciel_mapping: ciel_id is the code as the CharField stores it
create_ciel_mapping(s, to_source, ciel_id, map_type, iad_id, external_id) ==
    IF ~Ok(s) THEN s
    ELSE LET source_id == get_omrs_source_id_from_ocl_id(to_source)
         IN  IF source_id.err # "" THEN Raise(s, source_id.err)
             ELSE sync_reference_chain(s, source_id.id, ciel_id, map_type,
                                       iad_id, external_id)

(***************************************************************************)
(* create_internal_mapping (464-512), create_external_mapping (514-557)    *)
(* and the body of the loop of sync_mapping (315-329).                     *)
(***************************************************************************)

\* the concept code of the URL used as it stands, without the resolver
resolve_concept_url_literal(cs, concept_url) ==
    [err |-> "", id |-> int(at(split(concept_url), 6))]

\* lines 474-476, 478-480, 491-493, 495-497, 523-524: the concept code of a
\* concept URL, resolved to the identifier sync_concept recorded
resolve_concept_url(cs, concept_url) ==
    get_new_id(cs, int(at(split(concept_url), 6)))

\* the ConceptAnswer saved without the lookup of line 481
sync_concept_answer_unchecked(s, new_concept_id, new_answer_concept, external_id) ==
    [s EXCEPT !.db = save(@, "ConceptAnswer",
                          [question_concept_id |-> new_concept_id,
                           answer_concept_id |-> new_answer_concept,
                           uuid |-> external_id])]

\* lines 481-488: the ConceptAnswer, looked up by (question, answer, uuid)
sync_concept_answer(s, new_concept_id, new_answer_concept, external_id) ==
    IF {i \in DOMAIN s.db.ConceptAnswer :
           LET r == s.db.ConceptAnswer[i]
           IN  /\ r.question_concept_id = new_concept_id
               /\ r.answer_concept_id = new_answer_concept
               /\ r.uuid = external_id} # {}
    THEN s
    ELSE [s EXCEPT !.db = save(@, "ConceptAnswer",
                               [question_concept_id |-> new_concept_id,
                                answer_concept_id |-> new_answer_concept,
                                uuid |-> external_id])]

\* lines 499-504: the ConceptSet, looked up by (member, owner, uuid)
sync_concept_set(s, new_concept_id, new_concept_set_id, external_id) ==
    IF {i \in DOMAIN s.db.ConceptSet :
           LET r == s.db.ConceptSet[i]
           IN  /\ r.concept_id = new_concept_id
               /\ r.concept_set_owner_id = new_concept_set_id
               /\ r.uuid = external_id} # {}
    THEN s
    ELSE [s EXCEPT !.db = save(@, "ConceptSet",
                               [concept_id |-> new_concept_id,
                                concept_set_owner_id |-> new_concept_set_id,
                                uuid |-> external_id])]

create_internal_mapping(s, cs, map_type, from_concept_url, to_concept_url, external_id) ==
    IF ~Ok(s) THEN s
    ELSE IF map_type \in {MAP_TYPE_Q_AND_A, MAP_TYPE_CONCEPT_SET}
    THEN LET from_code == at(split(from_concept_url), 6)
             to_source == at(split(to_concept_url), 4)
             new_from == resolve_concept_url(cs, from_concept_url)
             new_to == resolve_concept_url(cs, to_concept_url)
         IN  IF new_from.err # "" THEN Raise(s, new_from.err)
             ELSE IF new_to.err # "" THEN Raise(s, new_to.err)
             ELSE IF map_type = MAP_TYPE_Q_AND_A
             THEN \* ciel_id = concept_id, iad_id = new_answer_concept
                  create_ciel_mapping(
                      sync_concept_answer(s, new_from.id, new_to.id, external_id),
                      to_source, from_code, "SAME-AS", new_to.id, external_id)
             ELSE \* ciel_id = concept_set_id, iad_id = new_concept_set_id
                  create_ciel_mapping(
                      sync_concept_set(s, new_to.id, new_from.id, external_id),
                      to_source, from_code, "SAME-AS", new_from.id, external_id)
    ELSE \* line 508: cnt_ocl_mapref is a local that was never assigned
         Raise(s, "UnboundLocalError")

create_external_mapping(s, cs, map_type, from_concept_url, to_source_url, to_concept_code, external_id) ==
    IF ~Ok(s) THEN s
    ELSE LET source_id ==
                 get_omrs_source_id_from_ocl_id(at(split(to_source_url), 4))
             cc == split(from_concept_url)
             concept_id == at(cc, 6)
             new_concept_id == resolve_concept_url(cs, from_concept_url)
         IN  IF source_id.err # "" THEN Raise(s, source_id.err)
             ELSE IF new_concept_id.err # "" THEN Raise(s, new_concept_id.err)
             ELSE LET s1 == sync_reference_chain(s, source_id.id, to_concept_code,
                                                 map_type, new_concept_id.id,
                                                 external_id)
                      s2 == [s1 EXCEPT !.clock = @ + 1]
                  IN  create_ciel_mapping(s2, at(cc, 4), str(int(concept_id)),
                                          map_type, new_concept_id.id,
                                          uuid1(s2.clock))

InternalKeys == {"map_type", "from_concept_url", "to_concept_url", "external_id"}
ExternalKeys == {"map_type", "from_concept_url", "to_source_url",
                 "to_concept_code", "external_id"}

\* lines 318-326: one mapping record
sync_mapping(s, cs, ref_map) ==
    LET s1 == IF Has(ref_map, "to_concept_url")
              THEN IF ~(InternalKeys \subseteq DOMAIN ref_map)
                   THEN Raise(s, "KeyError")
                   ELSE create_internal_mapping(s, cs, ref_map.map_type,
                            ref_map.from_concept_url, ref_map.to_concept_url,
                            ref_map.external_id)
              ELSE s
    IN  IF Ok(s1) /\ Has(ref_map, "to_source_url")
        THEN IF ~(ExternalKeys \subseteq DOMAIN ref_map)
             THEN Raise(s1, "KeyError")
             ELSE create_external_mapping(s1, cs, ref_map.map_type,
                      ref_map.from_concept_url, ref_map.to_source_url,
                      ref_map.to_concept_code, ref_map.external_id)
        ELSE s1

(***************************************************************************)
(* handle (91-145) and sync_db (208-231).                                  *)
(***************************************************************************)

\* lines 129-138: the counters handle() resets
InitialCounters ==
    [cnt_total_concepts_processed |-> 0,
     cnt_concepts_created |-> 0,
     cnt_internal_mappings_created |-> 0,
     cnt_external_mappings_created |-> 0,
     cnt_ignored_self_mappings |-> 0,
     cnt_questions_created |-> 0,
     cnt_answers_created |-> 0,
     cnt_retired_concepts_created |-> 0,
     cnt_set_members_created |-> 0]

\* lines 217-222: the list the concept loop enumerates.  With --concept_id
\* it is [concepts]: one element, the whole list.
concept_enumerator ==
    IF options.concept_id # None THEN <<concepts>> ELSE concepts

\* sync_mapping called from inside the concept loop (one indentation deeper)
concept_loop_done_inside == ci > 1

\* lines 226-231: sync_mapping is called once the concept loop has ended
concept_loop_done == ci > Len(concept_enumerator)

\* handle(): load both files, reset the counters, enter sync_db
handle ==
    /\ pc \in {"idle", "done", "error"}
    /\ runs < MaxRuns
    /\ concepts' = concept_file
    /\ mappings' = mapping_file
    /\ cnt' = InitialCounters
    /\ pc' = "sync_db"
    /\ ci' = 1
    /\ mi' = 1
    /\ err' = ""
    /\ runs' = runs + 1
    /\ db_prev' = db
    /\ UNCHANGED <<db, concept_file, mapping_file, options, clock, export_data,
                   exported, workers, overlapped>>

\* lines 226-229: one iteration of the concept loop
sync_db_concept ==
    /\ pc = "sync_db"
    /\ ~concept_loop_done
    /\ LET counted == [cnt EXCEPT !.cnt_total_concepts_processed = @ + 1,
                                  !.cnt_concepts_created = @ + 1]
           s0 == Ctx(db, clock, "")
       IN  IF options.concept_id # None
           THEN \* sync_concept(concepts): a list indexed by a string, line 250
                /\ cnt' = counted
                /\ pc' = "error"
                /\ err' = "TypeError"
                /\ UNCHANGED <<db, clock, concepts, ci>>
           ELSE LET r == sync_concept(s0, concepts[ci])
                IN  /\ cnt' = counted
                    /\ db' = r.s.db
                    /\ clock' = r.s.clock
                    /\ concepts' = [concepts EXCEPT ![ci] = r.concept]
                    /\ err' = r.s.err
                    /\ pc' = IF Ok(r.s) THEN "sync_db" ELSE "error"
                    /\ ci' = IF Ok(r.s) THEN ci + 1 ELSE ci
    /\ UNCHANGED <<concept_file, mapping_file, options, mappings, mi, runs,
                   db_prev, export_data, exported,
                   workers, overlapped>>

\* lines 317-326: one iteration of the mapping loop
sync_db_mapping ==
    /\ pc = "sync_db"
    /\ concept_loop_done
    /\ mi <= Len(mappings)
    /\ LET r == sync_mapping(Ctx(db, clock, ""), concepts, mappings[mi])
       IN  /\ db' = r.db
           /\ clock' = r.clock
           /\ err' = r.err
           /\ pc' = IF Ok(r) THEN "sync_db" ELSE "error"
           /\ mi' = IF Ok(r) THEN mi + 1 ELSE mi
    /\ UNCHANGED <<concept_file, mapping_file, options, concepts, mappings, cnt,
                   ci, runs, db_prev, export_data, exported,
                   workers, overlapped>>

\* lines 329 and 143-145: both loops have ended, handle() returns
sync_db_return ==
    /\ pc = "sync_db"
    /\ concept_loop_done
    /\ mi > Len(mappings)
    /\ pc' = "done"
    /\ UNCHANGED <<db, concept_file, mapping_file, options, concepts, mappings,
                   cnt, ci, mi, err, clock, runs, db_prev, export_data,
                   exported, workers, overlapped>>

(***************************************************************************)
(* Inputs: interchange records, files and stores.                          *)
(***************************************************************************)
ConceptUrl(org, source, id) ==
    <<"orgs", org, "sources", source, "concepts", str(id)>>
SourceUrl(org, source) == <<"orgs", org, "sources", source>>

Fever == [name |-> "Fever", name_type |-> "FULLY_SPECIFIED", locale |-> "en",
          locale_preferred |-> TRUE, external_id |-> "uuid-n-fever"]
Cough == [name |-> "Cough", name_type |-> "FULLY_SPECIFIED", locale |-> "en",
          locale_preferred |-> TRUE, external_id |-> "uuid-n-cough"]
Pyrexia == [name |-> "Pyrexia", name_type |-> "SHORT", locale |-> "en",
            locale_preferred |-> FALSE, external_id |-> "uuid-n-pyrexia"]
NameEntries == {Fever, Cough, Pyrexia}

\* the name lists of a record: up to two distinct entries, in either order
NameLists ==
    {<<>>} \cup {<<n>> : n \in NameEntries}
           \cup {q \in {<<n, m>> : n \in NameEntries, m \in NameEntries} :
                     q[1] # q[2]}

\* class, datatype, descriptions and extras vary together
Kinds ==
    { [concept_class |-> "Diagnosis", datatype |-> "N/A",
       descriptions |-> <<[description |-> "High temperature", locale |-> "en",
                           external_id |-> "uuid-d-high"]>>,
       extras |-> [k \in {} |-> 0]],
      [concept_class |-> "Test", datatype |-> "Numeric",
       descriptions |-> <<>>,
       extras |-> [units |-> "mg/dL", hi_normal |-> 10]] }

ConceptRecord(id, kind, retired, names) ==
    [id |-> id,
     concept_class |-> kind.concept_class,
     datatype |-> kind.datatype,
     external_id |-> "uuid-c-" \o str(id),
     retired |-> retired,
     names |-> names,
     descriptions |-> kind.descriptions,
     extras |-> kind.extras]

ConceptRecords(id) ==
    {ConceptRecord(id, k, r, n) : k \in Kinds, r \in BOOLEAN, n \in NameLists}

\* interchange identifiers of the batch; 4 names no concept of any batch
BatchIds == <<2, 3, 4>>
FirstId == BatchIds[1]
SecondId == BatchIds[2]
MissingId == BatchIds[3]

InternalMapping(map_type, from, to) ==
    [map_type |-> map_type,
     from_concept_url |-> ConceptUrl("CIEL", "CIEL", from),
     to_concept_url |-> ConceptUrl("CIEL", "CIEL", to)]

ExternalMapping(map_type, from, source, code) ==
    [map_type |-> map_type,
     from_concept_url |-> ConceptUrl("CIEL", "CIEL", from),
     to_source_url |-> SourceUrl(get_source_owner_id(source).id, source),
     to_concept_code |-> code]

\* a record with neither to_concept_url nor to_source_url
ShapelessMapping(map_type, from) ==
    [map_type |-> map_type,
     from_concept_url |-> ConceptUrl("CIEL", "CIEL", from)]

\* the mapping records of the model, before their external_id
MappingRecords ==
    {InternalMapping(t, f, o) :
         t \in {MAP_TYPE_Q_AND_A, MAP_TYPE_CONCEPT_SET, "SAME-AS"},
         f \in {FirstId, SecondId}, o \in {FirstId, SecondId}}
    \cup {InternalMapping(MAP_TYPE_Q_AND_A, FirstId, MissingId)}
    \cup {ExternalMapping("NARROWER-THAN", f, "SNOMED-CT", "386661006") :
              f \in {FirstId, SecondId}}
    \cup {ExternalMapping("SAME-AS", FirstId, "CIEL", str(SecondId))}
    \cup {ShapelessMapping("SAME-AS", FirstId)}

\* a record that carries to_concept_url and to_source_url at once
BothKeysMapping(map_type, from, to, source, code) ==
    [map_type |-> map_type,
     from_concept_url |-> ConceptUrl("CIEL", "CIEL", from),
     to_concept_url |-> ConceptUrl("CIEL", "CIEL", to),
     to_source_url |-> SourceUrl(get_source_owner_id(source).id, source),
     to_concept_code |-> code]

\* records at the edges of the format: an identifier no concept carries on
\* either shape, both keys at once, beside one ordinary record
EdgeCaseMappingRecords ==
    {InternalMapping(MAP_TYPE_CONCEPT_SET, MissingId, FirstId),
     InternalMapping("SAME-AS", FirstId, MissingId),
     ExternalMapping("NARROWER-THAN", MissingId, "SNOMED-CT", "386661006"),
     BothKeysMapping(MAP_TYPE_Q_AND_A, FirstId, SecondId, "SNOMED-CT", "386661006"),
     InternalMapping(MAP_TYPE_Q_AND_A, SecondId, FirstId)}

\* line k of a mapping file carries its own external_id
MappingFile(records) ==
    [k \in DOMAIN records |->
        SetKey(records[k], "external_id", "uuid-m-" \o str(k))]

RECURSIVE SeqsUpTo(_, _)
\* the sequences over S of length at most n
SeqsUpTo(S, n) ==
    IF n = 0 THEN {<<>>}
    ELSE LET shorter == SeqsUpTo(S, n - 1)
         IN  shorter \cup {Append(q, x) : q \in shorter, x \in S}

\* a store a previous use of the dictionary has left behind
SeededDb ==
    [EmptyDb EXCEPT
       !.ConceptClass = <<[name |-> "Diagnosis", retired |-> FALSE,
                           uuid |-> "uuid-cc-diagnosis"]>>,
       !.ConceptDatatype = <<[name |-> "N/A"]>>,
       !.Concept = <<[concept_class |-> 1, datatype |-> 1, is_set |-> 0,
                      uuid |-> "uuid-c-old", retired |-> FALSE,
                      description |-> None]>>,
       !.ConceptName = <<[concept_id |-> 1, name |-> "Cough",
                          uuid |-> "uuid-n-old", concept_name_type |-> "FULLY_SPECIFIED",
                          locale |-> "en", locale_preferred |-> TRUE, voided |-> 0],
                         [concept_id |-> 1, name |-> "Fever",
                          uuid |-> "uuid-n-old2", concept_name_type |-> "SHORT",
                          locale |-> "en", locale_preferred |-> FALSE, voided |-> 0]>>,
       !.ConceptReferenceSource = <<[name |-> "CIEL", hl7_code |-> None,
                                     retired |-> FALSE, uuid |-> "uuid-s-ciel"]>>,
       !.ConceptReferenceTerm = <<[code |-> "1", concept_source |-> 1,
                                   name |-> None, retired |-> FALSE,
                                   uuid |-> "uuid-t-1"]>>,
       !.ConceptMapType = <<[name |-> "SAME-AS", uuid |-> "uuid-mt-same"]>>,
       !.ConceptReferenceMap = <<[concept_reference_term |-> 1, concept_id |-> 1,
                                  uuid |-> "uuid-rm-1", map_type |-> 1]>>]

Stores == {EmptyDb, SeededDb}

ImportOptions(concept_id) ==
    [org_id |-> "CIEL", source_id |-> "CIEL", concept_id |-> concept_id]

\* the state before the first handle()
InitWith(cf, mf, store, opts) ==
    /\ concept_file = cf
    /\ mapping_file = mf
    /\ db = store
    /\ options = opts
    /\ concepts = <<>>
    /\ mappings = <<>>
    /\ cnt = InitialCounters
    /\ pc = "idle"
    /\ ci = 1
    /\ mi = 1
    /\ err = ""
    /\ clock = 0
    /\ runs = 0
    /\ db_prev = store
    /\ export_data = <<>>
    /\ exported = <<>>
    /\ workers = <<>>
    /\ overlapped = FALSE

\* concept-rich batches: one or two records of every kind, a short mapping file
ConceptFiles ==
    {<<c>> : c \in ConceptRecords(FirstId)}
    \cup {<<c, d>> : c \in ConceptRecords(FirstId), d \in ConceptRecords(SecondId)}

ShortMappingFiles ==
    {MappingFile(<<>>),
     MappingFile(<<InternalMapping(MAP_TYPE_Q_AND_A, FirstId, SecondId)>>),
     MappingFile(<<ExternalMapping("NARROWER-THAN", FirstId, "SNOMED-CT",
                                   "386661006")>>)}

\* mapping-rich batches: two plain concepts, every mapping file of the bound
PlainConceptFile ==
    << ConceptRecord(FirstId, CHOOSE k \in Kinds : k.datatype = "N/A",
                     FALSE, <<Fever>>),
       ConceptRecord(SecondId, CHOOSE k \in Kinds : k.datatype = "Numeric",
                     TRUE, <<Cough>>) >>

MappingFiles == {MappingFile(q) : q \in SeqsUpTo(MappingRecords, MaxMappings)}

EdgeCaseMappingFiles ==
    {MappingFile(q) : q \in SeqsUpTo(EdgeCaseMappingRecords, MaxMappings)}

Init ==
    \E store \in Stores :
        \/ \E cf \in ConceptFiles, mf \in ShortMappingFiles :
               InitWith(cf, mf, store, ImportOptions(None))
        \/ \E mf \in MappingFiles :
               InitWith(PlainConceptFile, mf, store, ImportOptions(None))
        \/ \E mf \in ShortMappingFiles :
               InitWith(PlainConceptFile, mf, store, ImportOptions(Some("2")))
        \/ \E mf \in EdgeCaseMappingFiles :
               InitWith(PlainConceptFile, mf, store, ImportOptions(None))

Next ==
    \/ handle
    \/ sync_db_concept
    \/ sync_db_mapping
    \/ sync_db_return

Spec == Init /\ [][Next]_vars

(***************************************************************************)
(* Properties of the import direction.                                     *)
(***************************************************************************)
Finished == pc \in {"done", "error"}

\* the rows of a table that the step db -> db' has appended
Appended(table) == {db'[table][i] : i \in (Len(db[table]) + 1)..Len(db'[table])}

\* the rows of a table written since the current run began
WrittenThisRun(table) ==
    {db[table][i] : i \in (Len(db_prev[table]) + 1)..Len(db[table])}

\* the concept code a concept URL ends with, as a number
CodeOf(concept_url) == int(concept_url[Len(concept_url)])

InBatch(id) == \E i \in DOMAIN concepts : concepts[i].id = id

\* the identifier sync_concept recorded on the record with interchange id
RecordedId(id) ==
    (CHOOSE c \in {concepts[i] : i \in DOMAIN concepts} : c.id = id).new_id

AllMaterialized ==
    \A i \in DOMAIN concepts : Has(concepts[i], "new_id")

\* C1: once a run on a batch has ended, running handle() again on the same
\* two files leaves the store, at every step of the later run and at its
\* end, exactly as the earlier run left it: no row of any table is added.
C1_ImportIdempotent == runs >= 2 => db = db_prev

\* a second run has ended on a batch whose first run wrote names, a
\* description, an answer and reference maps into an empty store
C1_Witness ==
    /\ runs = 2
    /\ pc = "done"
    /\ Len(db.ConceptName) >= 2
    /\ db.ConceptDescription # <<>>
    /\ db.ConceptAnswer # <<>>
    /\ Len(db.ConceptReferenceMap) >= 1
    /\ db.Concept[1].uuid # "uuid-c-old"

\* C2: whenever a mapping record is processed, the concept loop has run to
\* its end and every record of the batch carries its new_id.
C2_TwoPhaseOrdering ==
    [][sync_db_mapping => (ci = Len(concepts) + 1 /\ AllMaterialized)]_vars

\* a mapping record has been processed after two concepts were materialized
C2_Witness ==
    /\ mi > 1
    /\ Len(concepts) = 2
    /\ AllMaterialized

\* C3: the rows a mapping step writes name concepts by the identifiers
\* recorded in the concept phase: an answer row is (new from, new to), a set
\* row is (owner new from, member new to), and every reference map hangs on
\* the new identifier of the from or the to concept.
C3_IdentifierResolution ==
    [][sync_db_mapping =>
        LET m == mappings[mi]
            a == CodeOf(m.from_concept_url)
            internal == Has(m, "to_concept_url")
            b == IF internal THEN CodeOf(m.to_concept_url) ELSE a
        IN  (Has(m, "from_concept_url") /\ InBatch(a) /\ InBatch(b)) =>
              /\ \A r \in Appended("ConceptAnswer") :
                     /\ r.question_concept_id = RecordedId(a)
                     /\ r.answer_concept_id = RecordedId(b)
              /\ \A r \in Appended("ConceptSet") :
                     /\ r.concept_set_owner_id = RecordedId(a)
                     /\ r.concept_id = RecordedId(b)
              /\ \A r \in Appended("ConceptReferenceMap") :
                     r.concept_id \in {RecordedId(a), RecordedId(b)}
    ]_vars

\* an answer row and a reference map exist for a Q-AND-A record between two
\* concepts whose recorded identifiers differ from their interchange ones
C3_Witness ==
    /\ pc = "done"
    /\ \E k \in DOMAIN mappings :
         LET m == mappings[k]
         IN  /\ Has(m, "to_concept_url")
             /\ m.map_type = MAP_TYPE_Q_AND_A
             /\ LET a == CodeOf(m.from_concept_url)
                    b == CodeOf(m.to_concept_url)
                IN  /\ a # b
                    /\ RecordedId(a) # a
                    /\ RecordedId(b) # b
                    /\ \E r \in WrittenThisRun("ConceptAnswer") :
                           /\ r.question_concept_id = RecordedId(a)
                           /\ r.answer_concept_id = RecordedId(b)
                           /\ r.uuid = m.external_id
                    /\ \E r \in WrittenThisRun("ConceptReferenceMap") :
                           r.concept_id = RecordedId(b)

\* an internal record whose two URLs name the same concept of the batch
IsSelfMapping(m) ==
    /\ Has(m, "to_concept_url")
    /\ ~Has(m, "to_source_url")
    /\ m.from_concept_url = m.to_concept_url
    /\ InBatch(CodeOf(m.from_concept_url))

\* C4: a self-mapping record does not end the run in an error, leaves no
\* answer, set or reference-map row behind, is counted in
\* cnt_ignored_self_mappings, and the concept it names is created once.
C4_SelfMappingDropped ==
    \A k \in DOMAIN mappings :
        (/\ IsSelfMapping(mappings[k])
         /\ concept_loop_done
         /\ (k < mi \/ (k = mi /\ pc = "error"))) =>
            /\ pc # "error"
            /\ cnt.cnt_ignored_self_mappings >=
                   Cardinality({j \in 1..k : IsSelfMapping(mappings[j])})
            /\ \A r \in WrittenThisRun("ConceptAnswer") :
                   r.uuid # mappings[k].external_id
            /\ \A r \in WrittenThisRun("ConceptSet") :
                   r.uuid # mappings[k].external_id
            /\ \A r \in WrittenThisRun("ConceptReferenceMap") :
                   r.uuid # mappings[k].external_id
            /\ \A i \in DOMAIN concepts :
                   Cardinality({j \in DOMAIN db.Concept :
                                    db.Concept[j].uuid = concepts[i].external_id}) <= 1

\* C5: once a record is materialized, a Numeric record has a ConceptNumeric
\* row that carries exactly the numeric fields its extras supply, and a
\* record of another datatype has none.
C5_SparseNumericExtras ==
    \A i \in DOMAIN concepts :
        (Has(concepts[i], "new_id") /\ (i < ci \/ pc = "done")) =>
            LET c == concepts[i]
                rows == {r \in {db.ConceptNumeric[j] : j \in DOMAIN db.ConceptNumeric} :
                             r.concept_id = c.new_id}
            IN  IF c.datatype = "Numeric"
                THEN \E r \in rows :
                         \A f \in NumericFields :
                             IF Has(c.extras, f)
                             THEN Has(r, f) /\ r[f] = Some(c.extras[f])
                             ELSE ~Has(r, f) \/ r[f] = None
                ELSE \A r \in WrittenThisRun("ConceptNumeric") :
                         r.concept_id # c.new_id

\* a record with neither to_concept_url nor to_source_url
IsShapeless(m) == ~Has(m, "to_concept_url") /\ ~Has(m, "to_source_url")

\* C6: the mapping loop never moves past a record that is neither internal
\* nor external: such a record ends the run in an error.
C6_UnclassifiableFails ==
    \A k \in DOMAIN mappings :
        (concept_loop_done /\ k < mi) => ~IsShapeless(mappings[k])

\* C7: at the end of the concept phase every Concept row written by the run
\* is the recorded concept of some record (none was created beside a name
\* match), and every name of a record is owned by the record's new_id.
C7_NoDuplicateConcept ==
    (pc = "sync_db" /\ options.concept_id = None) =>
        /\ \A j \in (Len(db_prev.Concept) + 1)..Len(db.Concept) :
               \E i \in DOMAIN concepts :
                   Has(concepts[i], "new_id") /\ concepts[i].new_id = j
        /\ \A i \in 1..(ci - 1) :
               \A k \in DOMAIN concepts[i].names :
                   \A n \in concept_names_matching(db, concepts[i].names[k]) :
                       db.ConceptName[n].concept_id = concepts[i].new_id

IsPrefix(p, q) == Len(p) <= Len(q) /\ SubSeq(q, 1, Len(p)) = p

\* C8: no step updates or deletes: every table keeps every row it had, in
\* place and with every field unchanged; rows are only added.
C8_NoUpdateNoDelete ==
    [][\A t \in Tables : IsPrefix(db[t], db'[t])]_vars

\* a record was resolved through a name match to a concept that existed and
\* whose external id, retired flag and class all differ from the record's
C8_Witness ==
    \E i \in DOMAIN concepts :
        /\ Has(concepts[i], "new_id")
        /\ i < ci
        /\ LET row == db.Concept[concepts[i].new_id]
           IN  /\ row.uuid # concepts[i].external_id
               /\ row.retired # concepts[i].retired
               /\ db.ConceptClass[row.concept_class].name # concepts[i].concept_class

\* C9: a Concept row written by the run carries the retired field of the
\* record it was created from, and every ConceptClass, ConceptReferenceSource
\* and ConceptReferenceTerm row written by the run is not retired, whatever
\* the records say.
C9_RetiredCarriedNotInferred ==
    /\ \A r \in WrittenThisRun("Concept") :
           \A i \in DOMAIN concepts :
               concepts[i].external_id = r.uuid => r.retired = concepts[i].retired
    /\ \A r \in WrittenThisRun("ConceptClass") : r.retired = FALSE
    /\ \A r \in WrittenThisRun("ConceptReferenceSource") : r.retired = FALSE
    /\ \A r \in WrittenThisRun("ConceptReferenceTerm") : r.retired = FALSE

\* a mapping record that names, as its from or to concept, an identifier no
\* concept of the batch carries
HasUnresolved(m) ==
    \E key \in {"from_concept_url", "to_concept_url"} :
        Has(m, key) /\ ~InBatch(CodeOf(m[key]))

\* C12: the step that processes a mapping record with an unresolved from or
\* to identifier ends the run with UnresolvedIdentifierError and writes no
\* row.
C12_UnresolvedIdentifierFails ==
    [][(sync_db_mapping /\ HasUnresolved(mappings[mi])) =>
           /\ pc' = "error"
           /\ err' = "UnresolvedIdentifierError"
           /\ db' = db
    ]_vars

\* the fields sync_concept requires of a concept record
RequiredFields ==
    {"concept_class", "datatype", "external_id", "retired", "names",
     "descriptions", "extras"}

\* a concept record that lacks a required field or has no name
Malformed(record) ==
    \/ ~(RequiredFields \subseteq DOMAIN record)
    \/ record.names = <<>>

\* C13: the step that processes a malformed concept record ends the run in
\* an error and leaves every table as it was: no row derived from the record
\* is persisted.
C13_MalformedRecordNoEffect ==
    [][(sync_db_concept /\ Malformed(concepts[ci])) =>
           /\ pc' = "error"
           /\ db' = db
    ]_vars

\* C14: a run with the concept_id option does not end in the concept loop
\* with an error, and once the loop has ended exactly the record with that
\* identifier has been materialized (it carries new_id), no other.
C14_SingleConceptFilter ==
    (options.concept_id # None /\ runs >= 1) =>
        /\ ~(pc = "error" /\ ~concept_loop_done)
        /\ concept_loop_done =>
               \A i \in DOMAIN concepts :
                   Has(concepts[i], "new_id") <=>
                       str(concepts[i].id) = options.concept_id[1]

\* what the rows of concept cid say, in the terms of a concept record
NamesOf(d, cid) ==
    {[name |-> r.name, locale |-> r.locale,
      locale_preferred |-> r.locale_preferred,
      name_type |-> r.concept_name_type, external_id |-> r.uuid] :
         r \in {d.ConceptName[i] : i \in {j \in DOMAIN d.ConceptName :
                                             d.ConceptName[j].concept_id = cid}}}

DescriptionsOf(d, cid) ==
    {[description |-> r.description, locale |-> r.locale,
      external_id |-> r.uuid] :
         r \in {d.ConceptDescription[i] :
                    i \in {j \in DOMAIN d.ConceptDescription :
                               d.ConceptDescription[j].concept_id = cid}}}

\* the numeric extras the rows of concept cid carry: the pairs of a field
\* and a ConceptNumeric row of the concept that has a value for it
NumericExtrasOf(d, cid) ==
    LET rows == {d.ConceptNumeric[i] :
                     i \in {j \in DOMAIN d.ConceptNumeric :
                                d.ConceptNumeric[j].concept_id = cid}}
    IN  {q \in {<<f, r>> : f \in NumericFields, r \in rows} :
             Has(q[2], q[1]) /\ q[2][q[1]] # None}

\* names, descriptions, retired flag and external identifiers of the rows of
\* the concept recorded for record c are those of c
RowsCarryRecord(c) ==
    /\ db.Concept[c.new_id].uuid = c.external_id
    /\ db.Concept[c.new_id].retired = c.retired
    /\ NamesOf(db, c.new_id) = {c.names[k] : k \in DOMAIN c.names}
    /\ DescriptionsOf(db, c.new_id) =
           {c.descriptions[k] : k \in DOMAIN c.descriptions}

\* the first record of a batch has been imported into an empty store, and
\* no other record since
FirstRecordImported ==
    /\ runs = 1
    /\ db_prev = EmptyDb
    /\ options.concept_id = None
    /\ ci = 2

\* C16: the rows materialized for a concept record imported into an empty
\* store carry the names, descriptions, retired flag and external
\* identifiers of the record, and the numeric extras of a Numeric record.
C16_RoundTrip ==
    FirstRecordImported =>
        LET c == concepts[1]
        IN  /\ RowsCarryRecord(c)
            /\ c.datatype = "Numeric" =>
                   {<<q[1], q[2][q[1]][1]>> : q \in NumericExtrasOf(db, c.new_id)} =
                       {<<f, c.extras[f]>> : f \in NumericFields \cap DOMAIN c.extras}

\* an internal record of a generic map type between two distinct concepts
\* of the batch
IsGenericInternal(m) ==
    /\ Has(m, "to_concept_url")
    /\ ~Has(m, "to_source_url")
    /\ m.map_type \notin {MAP_TYPE_Q_AND_A, MAP_TYPE_CONCEPT_SET}
    /\ InBatch(CodeOf(m.from_concept_url))
    /\ InBatch(CodeOf(m.to_concept_url))
    /\ CodeOf(m.from_concept_url) # CodeOf(m.to_concept_url)

\* C17: the step that processes a generic internal record does not end the
\* run: the loop moves to the next record, and the store holds an edge of
\* the record's map type that starts at the concept recorded for its from
\* identifier.
C17_GenericInternalMapping ==
    [][(sync_db_mapping /\ IsGenericInternal(mappings[mi])) =>
           /\ pc' = "sync_db"
           /\ mi' = mi + 1
           /\ \E i \in DOMAIN db'.ConceptReferenceMap :
                  LET r == db'.ConceptReferenceMap[i]
                  IN  /\ r.concept_id = RecordedId(CodeOf(mappings[mi].from_concept_url))
                      /\ db'.ConceptMapType[r.map_type].name = mappings[mi].map_type
    ]_vars

\* C18: no two ConceptAnswer rows share (question concept, answer concept)
\* and no two ConceptSet rows share (member concept, owner concept).
C18_AnswerAndSetNaturalKeys ==
    /\ \A i, j \in DOMAIN db.ConceptAnswer :
           (/\ db.ConceptAnswer[i].question_concept_id =
                   db.ConceptAnswer[j].question_concept_id
            /\ db.ConceptAnswer[i].answer_concept_id =
                   db.ConceptAnswer[j].answer_concept_id) => i = j
    /\ \A i, j \in DOMAIN db.ConceptSet :
           (/\ db.ConceptSet[i].concept_id = db.ConceptSet[j].concept_id
            /\ db.ConceptSet[i].concept_set_owner_id =
                   db.ConceptSet[j].concept_set_owner_id) => i = j

\* what create_internal_mapping alone makes of record m in the state
InternalAlone(m) ==
    create_internal_mapping(Ctx(db, clock, ""), concepts, m.map_type,
        m.from_concept_url, m.to_concept_url, m.external_id)

\* what create_external_mapping alone makes of record m in the state
ExternalAlone(m) ==
    create_external_mapping(Ctx(db, clock, ""), concepts, m.map_type,
        m.from_concept_url, m.to_source_url, m.to_concept_code, m.external_id)

\* C20: the step that processes a mapping record carrying to_concept_url or
\* to_source_url has the effect of exactly one handler: of
\* create_internal_mapping alone or of create_external_mapping alone, also
\* for a record that carries both keys.
C20_ExactlyOneHandler ==
    [][(sync_db_mapping /\ ~IsShapeless(mappings[mi])) =>
           LET m == mappings[mi]
           IN  \/ /\ InternalKeys \subseteq DOMAIN m
                  /\ db' = InternalAlone(m).db
                  /\ err' = InternalAlone(m).err
               \/ /\ ExternalKeys \subseteq DOMAIN m
                  /\ db' = ExternalAlone(m).db
                  /\ err' = ExternalAlone(m).err
    ]_vars

\* the run has ended with an error in the mapping loop, at record mi
AbortedAtMapping == pc = "error" /\ concept_loop_done

\* C21: the step on which a run aborts at mapping record k removes no row
\* (what the concepts and mappings 1..k-1 persisted remains) and leaves the
\* loop at k; from the aborted state nothing happens but the start of a new
\* run, which changes no row; and through the whole re-run of the same
\* batch the store stays as the aborted run left it: no row is added again.
C21_PartialFailureThenRerun ==
    /\ [][(sync_db_mapping /\ pc' = "error") =>
              /\ mi' = mi
              /\ \A t \in Tables : IsPrefix(db[t], db'[t])
              /\ AllMaterialized']_vars
    /\ [][AbortedAtMapping => (runs' = runs + 1 /\ db' = db)]_vars
    /\ \A n \in 1..MaxRuns :
           [](AbortedAtMapping /\ runs = n => [](runs = n + 1 => db = db_prev))

\* a re-run has aborted at the second mapping record, as the run before it
\* had: the edge of the first record is in the store once
C21_Witness ==
    /\ runs = 2
    /\ AbortedAtMapping
    /\ mi = 2
    /\ db = db_prev
    /\ Cardinality({i \in DOMAIN db.ConceptReferenceMap :
                       db.ConceptReferenceMap[i].uuid = mappings[1].external_id}) = 1

\* a record with to_concept_url only
IsInternalRecord(m) == Has(m, "to_concept_url") /\ ~Has(m, "to_source_url")

\* C22: a step that processes an internal mapping record without raising
\* leaves a secondary ConceptReferenceMap of map type "SAME-AS" in the
\* store, and every ConceptReferenceMap row the step has added carries a
\* fresh external identifier: not the record's external_id, which is the
\* uuid of the ConceptAnswer or ConceptSet row created for the record.
C22_SecondaryFreshExternalId ==
    [][(sync_db_mapping /\ IsInternalRecord(mappings[mi]) /\ pc' = "sync_db") =>
           /\ \E i \in DOMAIN db'.ConceptReferenceMap :
                  db'.ConceptMapType[db'.ConceptReferenceMap[i].map_type].name
                      = "SAME-AS"
           /\ \A r \in Appended("ConceptReferenceMap") :
                  /\ db'.ConceptMapType[r.map_type].name = "SAME-AS"
                  /\ r.uuid # mappings[mi].external_id
                  /\ \A a \in Appended("ConceptAnswer") \cup Appended("ConceptSet") :
                         r.uuid # a.uuid
    ]_vars

\* a record with to_source_url only
IsExternalRecord(m) == Has(m, "to_source_url") /\ ~Has(m, "to_concept_url")

\* the store holds the concepts of the batch and no reference entity
OnlyBatchConcepts ==
    /\ db_prev = EmptyDb
    /\ db.ConceptReferenceSource = <<>>
    /\ db.ConceptReferenceTerm = <<>>
    /\ db.ConceptMapType = <<>>
    /\ db.ConceptReferenceMap = <<>>

\* C23: the step that imports an external mapping record into a store that
\* holds only the batch's concepts leaves exactly one ConceptReferenceSource
\* (the foreign one), one ConceptReferenceTerm (that source, the record's
\* code) and one ConceptReferenceMap: from the concept recorded for the from
\* identifier to that term, with the record's map type and external_id.
C23_ExternalMappingOneEdge ==
    [][(sync_db_mapping /\ IsExternalRecord(mappings[mi]) /\ OnlyBatchConcepts
            /\ pc' = "sync_db") =>
           LET m == mappings[mi]
           IN  /\ Len(db'.ConceptReferenceSource) = 1
               /\ Len(db'.ConceptReferenceTerm) = 1
               /\ Len(db'.ConceptReferenceMap) = 1
               /\ db'.ConceptReferenceSource[1].name =
                      get_omrs_source_id_from_ocl_id(at(split(m.to_source_url), 4)).id
               /\ db'.ConceptReferenceTerm[1].code = m.to_concept_code
               /\ db'.ConceptReferenceTerm[1].concept_source = 1
               /\ db'.ConceptReferenceMap[1].concept_id =
                      RecordedId(CodeOf(m.from_concept_url))
               /\ db'.ConceptReferenceMap[1].concept_reference_term = 1
               /\ db'.ConceptMapType[db'.ConceptReferenceMap[1].map_type].name =
                      m.map_type
               /\ db'.ConceptReferenceMap[1].uuid = m.external_id
    ]_vars

\* the ConceptReferenceMap rows a mapping step has added through
\* create_ciel_mapping: all of them for an internal record, the one with a
\* generated uuid for an external record
SecondaryAppended(m) ==
    {r \in Appended("ConceptReferenceMap") :
        IsInternalRecord(m) \/ r.uuid # m.external_id}

\* C24: every secondary ConceptReferenceMap a mapping step adds starts at
\* the concept recorded for the interchange identifier that is the code of
\* the row's term.
C24_SecondaryPointsAtOwnConcept ==
    [][(sync_db_mapping
            /\ (IsInternalRecord(mappings[mi]) \/ IsExternalRecord(mappings[mi]))) =>
           \A r \in SecondaryAppended(mappings[mi]) :
               LET code == int(db'.ConceptReferenceTerm[r.concept_reference_term].code)
               IN  /\ InBatch(code)
                   /\ r.concept_id = RecordedId(code)
    ]_vars

(***************************************************************************)
(* The export direction: export_concept_mappings (363-410).                *)
(***************************************************************************)
MaxEdges == 2       \* ConceptReferenceMap rows of an exported store
MaxExports == 2     \* export calls in one behaviour

\* add_f (606-609): the key is set only when the value is not None
add_f(dictionary, key, value) ==
    IF value # None THEN SetKey(dictionary, key, value[1]) ELSE dictionary

\* '/orgs/%s/sources/%s/concepts/%s/'
concept_url(org, source, code) ==
    <<"orgs", org, "sources", source, "concepts", code>>

\* generate_internal_mapping: both ends in the namespace of the dictionary
generate_internal_mapping(opts, map_type, from_concept, to_concept_code, external_id) ==
    add_f([map_type |-> map_type,
           from_concept_url |->
               concept_url(opts.org_id, opts.source_id, str(from_concept)),
           to_concept_url |->
               concept_url(opts.org_id, opts.source_id, to_concept_code)],
          "external_id", external_id)

\* generate_external_mapping: a source URL and the literal code
generate_external_mapping(opts, map_type, from_concept, to_org_id, to_source_id, to_concept_code, to_concept_name, external_id) ==
    add_f(add_f([map_type |-> map_type,
                 from_concept_url |->
                     concept_url(opts.org_id, opts.source_id, str(from_concept)),
                 to_source_url |-> SourceUrl(to_org_id, to_source_id),
                 to_concept_code |-> to_concept_code],
                "to_concept_name", to_concept_name),
          "external_id", external_id)

\* line 376: the edge's term belongs to the dictionary being exported
is_internal(d, opts, ref_map) ==
    d.ConceptReferenceSource[
        d.ConceptReferenceTerm[ref_map.concept_reference_term].concept_source
    ].name = opts.org_id

\* concept.concept_id == code without str(): an int never equals a str
is_self_mapping_untyped(concept_id, code) == FALSE

\* line 377: the edge points at the concept it starts from
is_self_mapping(concept_id, code) == str(concept_id) = code

\* line 372: concept.conceptreferencemap_set.all(), in primary-key order
conceptreferencemap_set(d, concept_id) ==
    SelectSeq([i \in DOMAIN d.ConceptReferenceMap |-> i],
              LAMBDA i : d.ConceptReferenceMap[i].concept_id = concept_id)

RECURSIVE export_concept_mappings_from(_, _, _, _, _, _, _)
\* lines 372-408: the loop over the edges from position k; r holds
\* export_data, the counters and the exception raised so far
export_concept_mappings_from(d, opts, concept_id, edges, k, r, e) ==
    IF e # "" \/ k > Len(edges) THEN [export_data |-> r.export_data,
                                      cnt |-> r.cnt, err |-> e]
    ELSE
    LET ref_map == d.ConceptReferenceMap[edges[k]]
        term == d.ConceptReferenceTerm[ref_map.concept_reference_term]
        map_type == d.ConceptMapType[ref_map.map_type].name
    IN  IF is_internal(d, opts, ref_map)
        THEN IF is_self_mapping(concept_id, term.code)
             THEN export_concept_mappings_from(d, opts, concept_id, edges, k + 1,
                      [r EXCEPT !.cnt.cnt_ignored_self_mappings = @ + 1], e)
             ELSE export_concept_mappings_from(d, opts, concept_id, edges, k + 1,
                      [export_data |->
                           Append(r.export_data,
                                  generate_internal_mapping(opts, map_type,
                                      concept_id, term.code, Some(term.uuid))),
                       cnt |-> [r.cnt EXCEPT
                                   !.cnt_internal_mappings_created = @ + 1]], e)
        ELSE LET omrs_to_source_id ==
                     d.ConceptReferenceSource[term.concept_source].name
                 to_source_id == get_ocl_source_id_from_omrs_id(omrs_to_source_id)
                 to_org_id == get_source_owner_id(to_source_id.id)
             IN  IF to_source_id.err # ""
                 THEN export_concept_mappings_from(d, opts, concept_id, edges, k,
                                                   r, to_source_id.err)
                 ELSE IF to_org_id.err # ""
                 THEN export_concept_mappings_from(d, opts, concept_id, edges, k,
                                                   r, to_org_id.err)
                 ELSE export_concept_mappings_from(d, opts, concept_id, edges,
                          k + 1,
                          [export_data |->
                               Append(r.export_data,
                                      generate_external_mapping(opts, map_type,
                                          concept_id, to_org_id.id,
                                          to_source_id.id, term.code, term.name,
                                          Some(ref_map.uuid))),
                           cnt |-> [r.cnt EXCEPT
                                       !.cnt_external_mappings_created = @ + 1]],
                          e)

\* export_concept_mappings(concept): [export_data, cnt, err]
export_concept_mappings(d, opts, counters, concept_id) ==
    export_concept_mappings_from(d, opts, concept_id,
        conceptreferencemap_set(d, concept_id), 1,
        [export_data |-> <<>>, cnt |-> counters], "")

\* one call of export_concept_mappings on a concept of the store
export_mappings ==
    /\ pc = "export"
    /\ Len(exported) < MaxExports
    /\ \E concept_id \in DOMAIN db.Concept :
         LET r == export_concept_mappings(db, options, cnt, concept_id)
         IN  /\ export_data' = r.export_data
             /\ cnt' = r.cnt
             /\ err' = r.err
             /\ exported' = Append(exported, concept_id)
    /\ UNCHANGED <<db, concept_file, mapping_file, options, concepts, mappings,
                   pc, ci, mi, clock, runs, db_prev,
                   workers, overlapped>>

\* the reference terms of an exported store: a code of every source
ExportSources == <<"CIEL", "SNOMED CT", "ICD-10-WHO">>
ExportCodes == <<"1", "2">>
ExportTerms ==
    [i \in 1..(Len(ExportSources) * Len(ExportCodes)) |->
        [code |-> ExportCodes[((i - 1) % Len(ExportCodes)) + 1],
         concept_source |-> ((i - 1) \div Len(ExportCodes)) + 1,
         name |-> IF i % 2 = 0 THEN None ELSE Some("term " \o str(i)),
         retired |-> FALSE,
         uuid |-> "uuid-t-" \o str(i)]]

\* an edge of an exported store: a concept, a term and a map type
ExportEdges ==
    [concept_id : {1, 2}, concept_reference_term : DOMAIN ExportTerms,
     map_type : {1, 2}]

\* a store with two concepts and the given reference edges
ExportDb(edges) ==
    [SeededDb EXCEPT
       !.Concept = Append(@, [concept_class |-> 1, datatype |-> 1, is_set |-> 0,
                              uuid |-> "uuid-c-old-2", retired |-> TRUE,
                              description |-> None]),
       !.ConceptReferenceSource =
           [i \in DOMAIN ExportSources |->
               [name |-> ExportSources[i], hl7_code |-> None, retired |-> FALSE,
                uuid |-> "uuid-s-" \o str(i)]],
       !.ConceptReferenceTerm = ExportTerms,
       !.ConceptMapType = <<[name |-> "SAME-AS", uuid |-> "uuid-mt-same"],
                            [name |-> "NARROWER-THAN", uuid |-> "uuid-mt-narrow"]>>,
       !.ConceptReferenceMap =
           [k \in DOMAIN edges |->
               [concept_reference_term |-> edges[k].concept_reference_term,
                concept_id |-> edges[k].concept_id,
                uuid |-> "uuid-rm-" \o str(k),
                map_type |-> edges[k].map_type]]]

ExportOptions ==
    { [org_id |-> "CIEL", source_id |-> "CIEL", concept_id |-> None],
      [org_id |-> "WHO", source_id |-> "ICD-10-WHO", concept_id |-> None] }

InitExport ==
    \E edges \in SeqsUpTo(ExportEdges, MaxEdges), opts \in ExportOptions :
        /\ db = ExportDb(edges)
        /\ db_prev = db
        /\ options = opts
        /\ concept_file = <<>>
        /\ mapping_file = <<>>
        /\ concepts = <<>>
        /\ mappings = <<>>
        /\ cnt = InitialCounters
        /\ pc = "export"
        /\ ci = 1
        /\ mi = 1
        /\ err = ""
        /\ clock = 0
        /\ runs = 0
        /\ export_data = <<>>
        /\ exported = <<>>
        /\ workers = <<>>
        /\ overlapped = FALSE

NextExport == export_mappings

SpecExport == InitExport /\ [][NextExport]_vars

(***************************************************************************)
(* Properties of the export direction.                                     *)
(***************************************************************************)
\* the edges of a concept, in primary-key order, as rows
EdgesOf(concept_id) ==
    SelectSeq(db.ConceptReferenceMap, LAMBDA r : r.concept_id = concept_id)

TermOf(ref_map) == db.ConceptReferenceTerm[ref_map.concept_reference_term]

SourceNameOf(ref_map) ==
    db.ConceptReferenceSource[TermOf(ref_map).concept_source].name

\* an edge into the own dictionary whose code is the concept's identifier
IsSelfEdge(ref_map) ==
    /\ SourceNameOf(ref_map) = options.org_id
    /\ int(TermOf(ref_map).code) = ref_map.concept_id

\* the external_id the record of an edge carries: the term's for an edge
\* into the own dictionary, the edge's otherwise
RecordIdOf(ref_map) ==
    IF SourceNameOf(ref_map) = options.org_id
    THEN TermOf(ref_map).uuid ELSE ref_map.uuid

InternalShaped(rec) ==
    /\ Has(rec, "to_concept_url")
    /\ ~Has(rec, "to_source_url")
    /\ ~Has(rec, "to_concept_code")

\* a record with a source URL and the literal code
ExternalShaped(rec) ==
    /\ Has(rec, "to_source_url")
    /\ Has(rec, "to_concept_code")
    /\ ~Has(rec, "to_concept_url")

\* C11: a call of export_concept_mappings returns exactly one record for each
\* edge that is not a self edge; the record is internal-shaped when the name
\* of the source of the edge's term is the identifier of the dictionary
\* being synchronized (source_id), and external-shaped with the literal code
\* of the term otherwise.
C11_ClassificationOnExport ==
    [][exported' # exported =>
        LET concept_id == exported'[Len(exported')]
            kept == SelectSeq(EdgesOf(concept_id), LAMBDA r : ~IsSelfEdge(r))
        IN  /\ Len(export_data') = Len(kept)
            /\ \A k \in DOMAIN kept :
                   k \in DOMAIN export_data' =>
                       IF SourceNameOf(kept[k]) = options.source_id
                       THEN InternalShaped(export_data'[k])
                       ELSE /\ ExternalShaped(export_data'[k])
                            /\ export_data'[k].to_concept_code = TermOf(kept[k]).code
    ]_vars

(***************************************************************************)
(* Two runs on the same store.  Nothing in the command takes a lock or     *)
(* opens a transaction, so between the filter() of a find-or-create and    *)
(* its save() the other run may act.  A run goes through the lookups of    *)
(* sync_concept (249-265) for its concept record and the source lookup of  *)
(* create_external_mapping (519-532) for its mapping record, one query per *)
(* step.                                                                   *)
(***************************************************************************)
Runs == {1, 2}

\* the class looked up by name and retired flag: a key wider than the name
concept_classes_by_flag(d, concept) ==
    {i \in DOMAIN d.ConceptClass :
        /\ d.ConceptClass[i].name = concept.concept_class
        /\ d.ConceptClass[i].retired = concept.retired}

\* line 250: ConceptClass.objects.filter(name=concept['concept_class'])
concept_classes(d, concept) ==
    {i \in DOMAIN d.ConceptClass :
        d.ConceptClass[i].name = concept.concept_class}

\* lines 255-257: the ConceptClass built and saved when none was found
new_concept_class(s, concept) ==
    [s EXCEPT !.clock = @ + 1,
              !.db = save(@, "ConceptClass",
                          [name |-> concept.concept_class,
                           retired |-> concept.retired,
                           uuid |-> uuid1(s.clock + 1)])]

\* line 259: ConceptDatatype.objects.filter(name=concept['datatype'])
datatypes(d, concept) ==
    {i \in DOMAIN d.ConceptDatatype :
        d.ConceptDatatype[i].name = concept.datatype}

\* lines 264-265: the ConceptDatatype built and saved when none was found
new_datatype(s, concept) ==
    [s EXCEPT !.db = save(@, "ConceptDatatype", [name |-> concept.datatype])]

\* lines 519-521: the OpenMRS name of the source of an external record
source_id_of(ref_map) ==
    get_omrs_source_id_from_ocl_id(at(split(ref_map.to_source_url), 4)).id

\* line 527: ConceptReferenceSource.objects.filter(name=source_id)
creference_sources(d, source_id) ==
    {i \in DOMAIN d.ConceptReferenceSource :
        d.ConceptReferenceSource[i].name = source_id}

\* lines 531-532: the ConceptReferenceSource built and saved
new_reference_source(s, source_id) ==
    [s EXCEPT !.clock = @ + 1,
              !.db = save(@, "ConceptReferenceSource",
                          [name |-> source_id, hl7_code |-> None,
                           retired |-> FALSE, uuid |-> uuid1(s.clock + 1)])]

\* a run is under way: it has made a query and has not reached its end
UnderWay(w) == workers[w].pc \notin {"class_filter", "done"}

\* run w moves to position next, holding the rows its query found
Step(w, next, found) ==
    /\ workers' = [workers EXCEPT ![w] = [@ EXCEPT !.pc = next, !.found = found]]
    /\ overlapped' = (overlapped \/ \E o \in Runs \ {w} : UnderWay(o))
    /\ UNCHANGED <<concept_file, mapping_file, options, concepts, mappings, cnt,
                   pc, ci, mi, err, runs, db_prev, export_data, exported>>

\* a save() of run w, or nothing when its query had found a row
SaveUnlessFound(w, s) ==
    IF workers[w].found # {}
    THEN UNCHANGED <<db, clock>>
    ELSE db' = s.db /\ clock' = s.clock

\* line 250
filter_concept_class(w) ==
    /\ workers[w].pc = "class_filter"
    /\ Step(w, "class_save", concept_classes(db, workers[w].concept))
    /\ UNCHANGED <<db, clock>>

\* lines 252-257
save_concept_class(w) ==
    /\ workers[w].pc = "class_save"
    /\ SaveUnlessFound(w, new_concept_class(Ctx(db, clock, ""), workers[w].concept))
    /\ Step(w, "datatype_filter", {})

\* line 259
filter_datatype(w) ==
    /\ workers[w].pc = "datatype_filter"
    /\ Step(w, "datatype_save", datatypes(db, workers[w].concept))
    /\ UNCHANGED <<db, clock>>

\* lines 261-265
save_datatype(w) ==
    /\ workers[w].pc = "datatype_save"
    /\ SaveUnlessFound(w, new_datatype(Ctx(db, clock, ""), workers[w].concept))
    /\ Step(w, "source_filter", {})

\* line 527
filter_reference_source(w) ==
    /\ workers[w].pc = "source_filter"
    /\ Step(w, "source_save",
            creference_sources(db, source_id_of(workers[w].ref_map)))
    /\ UNCHANGED <<db, clock>>

\* lines 528-532
save_reference_source(w) ==
    /\ workers[w].pc = "source_save"
    /\ SaveUnlessFound(w, new_reference_source(Ctx(db, clock, ""),
                                               source_id_of(workers[w].ref_map)))
    /\ Step(w, "done", {})

\* what a run is given: a concept record and an external mapping record
RaceConcepts ==
    {ConceptRecord(FirstId, k, r, <<Fever>>) : k \in Kinds, r \in BOOLEAN}

RaceMappings ==
    {SetKey(m, "external_id", "uuid-m-1") :
        m \in {ExternalMapping("NARROWER-THAN", FirstId, "SNOMED-CT", "386661006"),
               ExternalMapping("SAME-AS", FirstId, "CIEL", str(SecondId))}}

InitRace ==
    \E store \in Stores :
        /\ db = store
        /\ db_prev = store
        /\ options = ImportOptions(None)
        /\ concept_file = <<>>
        /\ mapping_file = <<>>
        /\ concepts = <<>>
        /\ mappings = <<>>
        /\ cnt = InitialCounters
        /\ pc = "race"
        /\ ci = 1
        /\ mi = 1
        /\ err = ""
        /\ clock = 0
        /\ runs = 0
        /\ export_data = <<>>
        /\ exported = <<>>
        /\ workers \in [Runs -> [pc : {"class_filter"}, found : {{}},
                                 concept : RaceConcepts, ref_map : RaceMappings]]
        /\ overlapped = FALSE

NextRace ==
    \E w \in Runs :
        \/ filter_concept_class(w)
        \/ save_concept_class(w)
        \/ filter_datatype(w)
        \/ save_datatype(w)
        \/ filter_reference_source(w)
        \/ save_reference_source(w)

SpecRace == InitRace /\ [][NextRace]_vars

(***************************************************************************)
(* Properties of two runs on the same store.                               *)
(***************************************************************************)
\* at most one ConceptClass, ConceptDatatype and ConceptReferenceSource row
\* per name
OneRowPerName(d) ==
    \A t \in {"ConceptClass", "ConceptDatatype", "ConceptReferenceSource"} :
        \A i, j \in DOMAIN d[t] : d[t][i].name = d[t][j].name => i = j

\* C15: as long as the two runs execute strictly one after the other (no run
\* has stepped while the other was between its first query and its end),
\* no natural key has two rows; the witness is the state interleaved runs
\* reach, where one has.
C15_SequentialRunsNoDuplicate ==
    ~overlapped => OneRowPerName(db)

\* both runs have ended, they interleaved, and a name has two rows
C15_Witness ==
    /\ \A w \in Runs : workers[w].pc = "done"
    /\ overlapped
    /\ ~OneRowPerName(db)

(***************************************************************************)
(* Natural keys of the reference entities under sequential runs.           *)
(***************************************************************************)
\* at most one ConceptReferenceTerm per (source, code)
OneTermPerSourceAndCode(d) ==
    \A i, j \in DOMAIN d.ConceptReferenceTerm :
        (/\ d.ConceptReferenceTerm[i].concept_source =
                d.ConceptReferenceTerm[j].concept_source
         /\ d.ConceptReferenceTerm[i].code = d.ConceptReferenceTerm[j].code)
            => i = j

\* at most one ConceptReferenceMap per (source concept, term, map type)
OneMapPerEdge(d) ==
    \A i, j \in DOMAIN d.ConceptReferenceMap :
        (/\ d.ConceptReferenceMap[i].concept_id = d.ConceptReferenceMap[j].concept_id
         /\ d.ConceptReferenceMap[i].concept_reference_term =
                d.ConceptReferenceMap[j].concept_reference_term
         /\ d.ConceptReferenceMap[i].map_type = d.ConceptReferenceMap[j].map_type)
            => i = j

\* at most one ConceptMapType per name
OneMapTypePerName(d) ==
    \A i, j \in DOMAIN d.ConceptMapType :
        d.ConceptMapType[i].name = d.ConceptMapType[j].name => i = j

\* C19: through every sequence of import runs, one after the other, the
\* store has at most one ConceptClass, ConceptDatatype, ConceptReferenceSource
\* and ConceptMapType per name, one ConceptReferenceTerm per (source, code)
\* and one ConceptReferenceMap per (source concept, reference term, map
\* type).
C19_ReferenceNaturalKeys ==
    /\ OneRowPerName(db)
    /\ OneMapTypePerName(db)
    /\ OneTermPerSourceAndCode(db)
    /\ OneMapPerEdge(db)

\* a second run has ended on a store where the first had written two edges
\* of one map type: every lookup of the second run found its row
C19_Witness ==
    /\ runs = 2
    /\ pc = "done"
    /\ Len(mappings) = 2
    /\ Len(db_prev.ConceptReferenceMap) >= 2
    /\ db = db_prev
    /\ \E i, j \in DOMAIN db.ConceptReferenceMap :
           /\ i # j
           /\ db.ConceptReferenceMap[i].map_type = db.ConceptReferenceMap[j].map_type

(***************************************************************************)
(* The export of all the mappings of a concept:                            *)
(* export_all_mappings_for_concept (333-361), export_concept_qanda         *)
(* (412-436), export_concept_set_members (438-462).                        *)
(***************************************************************************)
MaxLinks == 2       \* answer and set-membership rows of an exported store

\* concept.question_answer.all(): the answer rows whose question is the
\* concept, in primary-key order
question_answer(d, concept_id) ==
    SelectSeq(d.ConceptAnswer, LAMBDA r : r.question_concept_id = concept_id)

\* concept.conceptset_set.all(): the set rows whose owner is the concept,
\* in primary-key order
conceptset_set(d, concept_id) ==
    SelectSeq(d.ConceptSet, LAMBDA r : r.concept_set_owner_id = concept_id)

\* lines 412-436: [export_data, cnt]; one internal record per answer
export_concept_qanda(d, opts, counters, concept_id) ==
    LET answers == question_answer(d, concept_id)
    IN  IF Len(answers) = 0
        THEN [export_data |-> <<>>, cnt |-> counters]
        ELSE [export_data |->
                  [k \in DOMAIN answers |->
                      generate_internal_mapping(opts, MAP_TYPE_Q_AND_A,
                          concept_id, str(answers[k].answer_concept_id),
                          Some(answers[k].uuid))],
              cnt |-> [counters EXCEPT
                          !.cnt_questions_created = @ + 1,
                          !.cnt_answers_created = @ + Len(answers)]]

\* lines 438-462: [export_data, cnt]; one internal record per set member
export_concept_set_members(d, opts, counters, concept_id) ==
    LET members == conceptset_set(d, concept_id)
    IN  IF Len(members) = 0
        THEN [export_data |-> <<>>, cnt |-> counters]
        ELSE [export_data |->
                  [k \in DOMAIN members |->
                      generate_internal_mapping(opts, MAP_TYPE_CONCEPT_SET,
                          concept_id, str(members[k].concept_id),
                          Some(members[k].uuid))],
              cnt |-> [counters EXCEPT
                          !.cnt_retired_concepts_created = @ + 1,
                          !.cnt_set_members_created = @ + Len(members)]]

\* export_all_mappings_for_concept without the tests of lines 350 and 356
export_all_mappings_for_concept_unflagged(d, opts, counters, concept_id, export_qanda, export_set_members) ==
    LET direct == export_concept_mappings(d, opts, counters, concept_id)
        qanda == export_concept_qanda(d, opts, direct.cnt, concept_id)
        members == export_concept_set_members(d, opts, qanda.cnt, concept_id)
    IN  IF direct.err # "" THEN direct
        ELSE [export_data |-> direct.export_data \o qanda.export_data
                                  \o members.export_data,
              cnt |-> members.cnt, err |-> ""]

\* lines 333-361: [export_data, cnt, err]; the direct mappings, then the
\* answers, then the set members
export_all_mappings_for_concept(d, opts, counters, concept_id, export_qanda, export_set_members) ==
    LET direct == export_concept_mappings(d, opts, counters, concept_id)
        qanda == IF export_qanda
                 THEN export_concept_qanda(d, opts, direct.cnt, concept_id)
                 ELSE [export_data |-> <<>>, cnt |-> direct.cnt]
        members == IF export_set_members
                   THEN export_concept_set_members(d, opts, qanda.cnt, concept_id)
                   ELSE [export_data |-> <<>>, cnt |-> qanda.cnt]
    IN  IF direct.err # "" THEN direct
        ELSE [export_data |-> direct.export_data \o qanda.export_data
                                  \o members.export_data,
              cnt |-> members.cnt, err |-> ""]

\* one call of export_all_mappings_for_concept on a concept of the store
export_all_mappings ==
    /\ pc = "export_all"
    /\ exported = <<>>
    /\ \E concept_id \in DOMAIN db.Concept, export_qanda \in BOOLEAN,
          export_set_members \in BOOLEAN :
         LET r == export_all_mappings_for_concept(db, options, cnt, concept_id,
                                                  export_qanda, export_set_members)
         IN  /\ export_data' = r.export_data
             /\ cnt' = r.cnt
             /\ err' = r.err
             /\ exported' = Append(exported,
                                   [concept_id |-> concept_id,
                                    export_qanda |-> export_qanda,
                                    export_set_members |-> export_set_members])
    /\ UNCHANGED <<db, concept_file, mapping_file, options, concepts, mappings,
                   pc, ci, mi, clock, runs, db_prev,
                   workers, overlapped>>

\* the direct edges of the first concept: to the term "2" of CIEL and to
\* the term "1" of SNOMED CT
DirectEdges ==
    {e \in ExportEdges : /\ e.concept_id = 1
                         /\ e.map_type = 1
                         /\ e.concept_reference_term \in {2, 3}}

\* a link between two concepts of the store: an answer of a question or a
\* member of a set
Links == [kind : {"answer", "member"}, from : {1, 2}, to : {1, 2}]

\* the answer rows of a sequence of links
AnswerRows(links) ==
    LET picked == SelectSeq(links, LAMBDA l : l.kind = "answer")
    IN  [k \in DOMAIN picked |->
            [question_concept_id |-> picked[k].from,
             answer_concept_id |-> picked[k].to,
             uuid |-> "uuid-ca-" \o str(k)]]

\* the set rows of a sequence of links
SetRows(links) ==
    LET picked == SelectSeq(links, LAMBDA l : l.kind = "member")
    IN  [k \in DOMAIN picked |->
            [concept_id |-> picked[k].to,
             concept_set_owner_id |-> picked[k].from,
             uuid |-> "uuid-cs-" \o str(k)]]

InitExportAll ==
    \E edges \in SeqsUpTo(DirectEdges, MaxEdges),
       links \in SeqsUpTo(Links, MaxLinks), opts \in ExportOptions :
        /\ db = [ExportDb(edges) EXCEPT !.ConceptAnswer = AnswerRows(links),
                                        !.ConceptSet = SetRows(links)]
        /\ db_prev = db
        /\ options = opts
        /\ concept_file = <<>>
        /\ mapping_file = <<>>
        /\ concepts = <<>>
        /\ mappings = <<>>
        /\ cnt = InitialCounters
        /\ pc = "export_all"
        /\ ci = 1
        /\ mi = 1
        /\ err = ""
        /\ clock = 0
        /\ runs = 0
        /\ export_data = <<>>
        /\ exported = <<>>
        /\ workers = <<>>
        /\ overlapped = FALSE

NextExportAll == export_all_mappings

SpecExportAll == InitExportAll /\ [][NextExportAll]_vars

\* the internal record of a link: both ends in the namespace of the
\* dictionary being exported
LinkRecord(map_type, from, to, uuid) ==
    [map_type |-> map_type,
     from_concept_url |-> <<"orgs", options.org_id, "sources", options.source_id,
                            "concepts", str(from)>>,
     to_concept_url |-> <<"orgs", options.org_id, "sources", options.source_id,
                          "concepts", str(to)>>,
     external_id |-> uuid]

\* the answer links of a question, in primary-key order
AnswersOf(c) ==
    SelectSeq(db.ConceptAnswer, LAMBDA r : r.question_concept_id = c)

\* the members of a set, in primary-key order
MembersOf(c) ==
    SelectSeq(db.ConceptSet, LAMBDA r : r.concept_set_owner_id = c)

QandARecords(c) ==
    [k \in DOMAIN AnswersOf(c) |->
        LinkRecord("Q-AND-A", c, AnswersOf(c)[k].answer_concept_id,
                   AnswersOf(c)[k].uuid)]

SetMemberRecords(c) ==
    [k \in DOMAIN MembersOf(c) |->
        LinkRecord("CONCEPT-SET", c, MembersOf(c)[k].concept_id,
                   MembersOf(c)[k].uuid)]

\* the records export_concept_mappings alone returns for the concept
DirectRecords(c) == export_concept_mappings(db, options, cnt, c).export_data

\* C25: export_all_mappings_for_concept returns the direct reference-term
\* mappings of the concept first, then one internal "Q-AND-A" record per
\* answer link of the concept, then one internal "CONCEPT-SET" record per
\* member of the concept, each with both ends in the exported dictionary;
\* with export_qanda or export_set_members false the corresponding records
\* are left out and the others stay as they are.
C25_ExportLinks ==
    [][(export_all_mappings /\ err' = "") =>
           LET call == exported'[Len(exported')]
               c == call.concept_id
           IN  export_data' =
                   DirectRecords(c)
                   \o (IF call.export_qanda THEN QandARecords(c) ELSE <<>>)
                   \o (IF call.export_set_members THEN SetMemberRecords(c)
                       ELSE <<>>)
    ]_vars

\* a call without the set members on a concept that has a direct mapping,
\* an answer and a member: the direct record, then the answer's record
C25_Witness ==
    /\ pc = "export_all"
    /\ exported # <<>>
    /\ err = ""
    /\ LET call == exported[1]
           c == call.concept_id
       IN  /\ call.export_qanda
           /\ ~call.export_set_members
           /\ Len(DirectRecords(c)) = 1
           /\ Len(AnswersOf(c)) = 1
           /\ AnswersOf(c)[1].answer_concept_id # c
           /\ Len(MembersOf(c)) = 1
           /\ Len(export_data) = 2
           /\ export_data[2].map_type = "Q-AND-A"

====
